---- MODULE Spec2Model ----
(***************************************************************************)
(* Model of caab/read.py: the row predicate is_current_taxon, the field    *)
(* normalizers clean_*, the name-group parser caab_name_expander and the   *)
(* remark synthesizer caab_name_remarks.                                   *)
(*                                                                         *)
(* A Python str is a sequence of one-character strings.  The only          *)
(* whitespace character of the alphabet is the space, and no string holds  *)
(* a newline, so the regex classes \s and . are "space" and "any".         *)
(* Python's None is the value None below.                                  *)
(***************************************************************************)
EXTENDS Integers, Sequences, FiniteSets, TLC

None == <<"None">>

\* ------------------------------------------------------------------ bounds
MaxTokens == 3

\* ------------------------------------------------------- string primitives
IsSpace(c) == c = " "

Max(S) == CHOOSE m \in S : \A n \in S : n <= m

RECURSIVE FirstIn(_, _, _)
\* least k in from..Len(s) with s[k] in chars, or Len(s) + 1
FirstIn(s, from, chars) ==
    IF from > Len(s) \/ s[from] \in chars THEN from ELSE FirstIn(s, from + 1, chars)

RECURSIVE FirstNonSpace(_, _)
\* least k in from..Len(s) with s[k] not whitespace, or Len(s) + 1
FirstNonSpace(s, from) ==
    IF from > Len(s) \/ ~IsSpace(s[from]) THEN from ELSE FirstNonSpace(s, from + 1)

RECURSIVE LastNonSpace(_, _)
\* greatest k in 1..upto with s[k] not whitespace, or 0
LastNonSpace(s, upto) ==
    IF upto < 1 \/ ~IsSpace(s[upto]) THEN upto ELSE LastNonSpace(s, upto - 1)

Tail_(s, k) == SubSeq(s, k, Len(s))

StartsWith(s, p) == Len(p) <= Len(s) /\ SubSeq(s, 1, Len(p)) = p

EndsWith(s, p) == Len(p) <= Len(s) /\ SubSeq(s, Len(s) - Len(p) + 1, Len(s)) = p

Contains(s, p) == \E k \in 0..(Len(s) - Len(p)) : SubSeq(s, k + 1, k + Len(p)) = p

\* str.strip()
Strip(s) == SubSeq(s, FirstNonSpace(s, 1), LastNonSpace(s, Len(s)))

\* number of leading whitespace characters
LeadingSpaces(s) == FirstNonSpace(s, 1) - 1

\* re.split on a one-character class
RECURSIVE SplitOn(_, _)
SplitOn(s, seps) ==
    LET k == FirstIn(s, 1, seps)
    IN  IF k > Len(s) THEN <<s>>
        ELSE <<SubSeq(s, 1, k - 1)>> \o SplitOn(Tail_(s, k + 1), seps)

\* str.split(" ", 1)
SplitFirstSpace(s) ==
    LET k == FirstIn(s, 1, {" "})
    IN  IF k > Len(s) THEN <<s>>
        ELSE <<SubSeq(s, 1, k - 1), Tail_(s, k + 1)>>

RECURSIVE Join(_, _)
Join(l, sep) ==
    IF Len(l) = 0 THEN <<>>
    ELSE IF Len(l) = 1 THEN l[1]
    ELSE l[1] \o sep \o Join(Tail(l), sep)

\* group(1) of pattern.fullmatch(s) for a pattern "(.+)" followed by Rest:
\* the greedy group takes the longest non-empty prefix whose remainder
\* matches Rest; None when there is no match.
\* (ends is the set of the lengths of those prefixes)
Group1(s, ends) == IF ends = {} THEN None ELSE SubSeq(s, 1, Max(ends))

UpperCase == <<"A","B","C","D","E","F","G","H","I","J","K","L","M",
               "N","O","P","Q","R","S","T","U","V","W","X","Y","Z">>

LowerCase == <<"a","b","c","d","e","f","g","h","i","j","k","l","m",
               "n","o","p","q","r","s","t","u","v","w","x","y","z">>

IsUpper(c) == \E k \in 1..26 : UpperCase[k] = c

\* ------------------------------------------------------ the regex constants
NAME_SPLIT == {",", "&"}

\* [A-Z]\.
NAME_ABBREV(s) == Len(s) = 2 /\ IsUpper(s[1]) /\ s[2] = "."

\* \s+spp?\.?   (what follows the group of _SP_MARKER)
SpRest(s) ==
    LET n == LeadingSpaces(s)
    IN  /\ Len(s) >= 1 /\ IsSpace(s[1])
        /\ Tail_(s, n + 1) \in {<<"s","p">>, <<"s","p","p">>,
                                <<"s","p",".">>, <<"s","p","p",".">>}

SP_MARKER(s) == Group1(s, {k \in 1..(Len(s) - 1) : SpRest(Tail_(s, k + 1))})

\* \s+except\s+(.+)
ExceptRest(s) ==
    LET n == LeadingSpaces(s)
        t == Tail_(s, n + 1)
        u == Tail_(t, 7)
    IN  /\ Len(s) >= 1 /\ IsSpace(s[1])
        /\ StartsWith(t, <<"e","x","c","e","p","t">>)
        /\ Len(u) >= 2
        /\ IsSpace(u[1])

EXCEPT_FORM(s) == Group1(s, {k \in 1..(Len(s) - 1) : ExceptRest(Tail_(s, k + 1))})

\* \s+\(\s*[Tt]ribes\s.*\)
TribesRest(s) ==
    LET n == LeadingSpaces(s)
        t == Tail_(s, n + 1)
        p == Tail_(t, 2)
        w == Tail_(p, LeadingSpaces(p) + 1)
        u == Tail_(w, 7)
    IN  /\ Len(s) >= 1 /\ IsSpace(s[1])
        /\ StartsWith(t, <<"(">>)
        /\ \/ StartsWith(w, <<"T","r","i","b","e","s">>)
           \/ StartsWith(w, <<"t","r","i","b","e","s">>)
        /\ Len(u) >= 2
        /\ IsSpace(u[1])
        /\ u[Len(u)] = ")"

TRIBES(s) == Group1(s, {k \in 1..(Len(s) - 1) : TribesRest(Tail_(s, k + 1))})

\* \s+\(?[Ii]mported .+\)?
ImportedRest(s) ==
    LET n == LeadingSpaces(s)
        t == Tail_(s, n + 1)
        w == IF StartsWith(t, <<"(">>) THEN Tail_(t, 2) ELSE t
        u == Tail_(w, 9)
    IN  /\ Len(s) >= 1 /\ IsSpace(s[1])
        /\ \/ StartsWith(w, <<"I","m","p","o","r","t","e","d"," ">>)
           \/ StartsWith(w, <<"i","m","p","o","r","t","e","d"," ">>)
        /\ Len(u) >= 1

IMPORTED(s) == Group1(s, {k \in 1..(Len(s) - 1) : ImportedRest(Tail_(s, k + 1))})

\* --------------------------------------------------- caab_name_expander
VARIABLES scientificName, pc, value, values, genus, result, idx, outcome

expVars == <<scientificName, pc, value, values, genus, result, idx, outcome>>

\* the name-group strings the rows carry: one to MaxTokens designations
\* joined by "," or " & ", with an optional trailing annotation
Designations ==
    { <<"T","a"," ","x">>,
      <<"T","u"," ","x">>,
      <<"T","."," ","y">>,
      <<"T",".">>,
      <<"U","b"," ","s","p"," ","e","x","c","e","p","t"," ","y">>,
      <<>> }

Separators == { <<",">>, <<" ","&"," ">> }

Annotations ==
    { <<>>,
      <<" ","(","I","m","p","o","r","t","e","d"," ","z",")">>,
      <<" ","(","T","r","i","b","e","s"," ","z",")">> }

RECURSIVE NameGroups(_)
NameGroups(n) ==
    IF n = 1 THEN Designations
    ELSE { g \o sep \o d : g \in NameGroups(n - 1), sep \in Separators, d \in Designations }

NameGroupValues ==
    {None} \cup { g \o a : g \in UNION { NameGroups(n) : n \in 1..MaxTokens }, a \in Annotations }

NoOutcome == [kind |-> "none", val |-> <<>>, msg |-> <<>>]

Returned(l) == [kind |-> "return", val |-> l, msg |-> <<>>]

Raised(k, m) == [kind |-> k, val |-> <<>>, msg |-> m]

EmptyDict == [c \in {} |-> <<>>]

\* dict.get(key)
DictGet(d, k) == IF k \in DOMAIN d THEN d[k] ELSE None

\* if initial not in genus: genus[initial] = first
GenusPut(d, initial, first) ==
    IF initial \in DOMAIN d THEN d
    ELSE [c \in DOMAIN d \cup {initial} |-> IF c = initial THEN first ELSE d[c]]

\* a list that drops a name it already holds
ListAppendUnique(l, v) == IF \E k \in 1..Len(l) : l[k] = v THEN l ELSE Append(l, v)

\* result.append(v)
ListAppend(l, v) == Append(l, v)

\* a map kept in a wider scope: the call goes on with the map it finds
GenusHoisted(last) == last

\* genus = dict(): the map of a call is a new, empty one, whatever map the
\* call before it built (last)
GenusDict(last) == EmptyDict

\* "Can't find abbreviated form for " + v + " in " + value
CantFind == <<"C","a","n","'","t"," ","f","i","n","d"," ","a","b","b","r","e","v","i","a","t","e","d",
              " ","f","o","r","m"," ","f","o","r"," ">>

AbbrevMessage(v, val) == CantFind \o v \o <<" ","i","n"," ">> \o val

\* the token after strip(), _EXCEPT_FORM and _SP_MARKER
CleanToken(raw) ==
    LET v0 == Strip(raw)
        em == EXCEPT_FORM(v0)
        v1 == IF em # None THEN em ELSE v0
        sm == SP_MARKER(v1)
    IN  IF sm # None THEN sm ELSE v1

ExpInit ==
    /\ scientificName = None
    /\ pc = "idle"
    /\ value = None
    /\ values = <<>>
    /\ genus = EmptyDict
    /\ result = <<>>
    /\ idx = 0
    /\ outcome = NoOutcome

\* the expansion node hands the parser the next row
Call(s) ==
    /\ pc = "idle"
    /\ scientificName' = s
    /\ value' = s
    /\ pc' = "strip"
    /\ UNCHANGED <<values, genus, result, idx, outcome>>

StripValue ==
    /\ pc = "strip"
    /\ value' = IF value # None THEN Strip(value) ELSE None
    /\ IF value' = None \/ Len(value') = 0
       THEN pc' = "done" /\ outcome' = Returned(None)
       ELSE pc' = "imported" /\ outcome' = outcome
    /\ UNCHANGED <<scientificName, values, genus, result, idx>>

StripImported ==
    /\ pc = "imported"
    /\ LET im == IMPORTED(value)
       IN  value' = IF im # None THEN im ELSE value
    /\ pc' = "tribes"
    /\ UNCHANGED <<scientificName, values, genus, result, idx, outcome>>

StripTribes ==
    /\ pc = "tribes"
    /\ LET tm == TRIBES(value)
       IN  value' = IF tm # None THEN tm ELSE value
    /\ pc' = "split"
    /\ UNCHANGED <<scientificName, values, genus, result, idx, outcome>>

SplitValue ==
    /\ pc = "split"
    /\ values' = SplitOn(value, NAME_SPLIT)
    /\ genus' = GenusDict(genus)
    /\ result' = <<>>
    /\ idx' = 1
    /\ pc' = "loop"
    /\ UNCHANGED <<scientificName, value, outcome>>

LoopBody ==
    /\ pc = "loop"
    /\ idx <= Len(values)
    /\ LET v       == CleanToken(values[idx])
           parts   == SplitFirstSpace(v)
           first   == parts[1]
       IN  IF Len(first) = 0
           THEN \* first[0] on an empty string
                /\ outcome' = Raised("IndexError", <<>>)
                /\ pc' = "done"
                /\ UNCHANGED <<genus, result, idx>>
           ELSE LET initial == first[1]
                    full    == DictGet(genus, initial)
                IN  IF NAME_ABBREV(first)
                    THEN IF full = None
                         THEN /\ outcome' = Raised("ValueError", AbbrevMessage(v, value))
                              /\ pc' = "done"
                              /\ UNCHANGED <<genus, result, idx>>
                         ELSE /\ result' = ListAppend(result,
                                     IF Len(parts) > 1 THEN full \o <<" ">> \o parts[2] ELSE full)
                              /\ idx' = idx + 1
                              /\ UNCHANGED <<genus, pc, outcome>>
                    ELSE /\ genus' = GenusPut(genus, initial, first)
                         /\ result' = ListAppend(result, v)
                         /\ idx' = idx + 1
                         /\ UNCHANGED <<pc, outcome>>
    /\ UNCHANGED <<scientificName, value, values>>

ReturnResult ==
    /\ pc = "loop"
    /\ idx > Len(values)
    /\ outcome' = Returned(result)
    /\ pc' = "done"
    /\ UNCHANGED <<scientificName, value, values, genus, result, idx>>

\* the call is over and its frame is gone.  The model keeps the map the
\* call built in genus until the next call makes its own, so that "the next
\* call never sees it" is a statement about the model.
Finish ==
    /\ pc = "done"
    /\ pc' = "idle"
    /\ scientificName' = None
    /\ value' = None
    /\ values' = <<>>
    /\ result' = <<>>
    /\ idx' = 0
    /\ outcome' = NoOutcome
    /\ UNCHANGED genus

ExpNext ==
    \/ pc = "idle" /\ \E s \in NameGroupValues : Call(s)
    \/ StripValue
    \/ StripImported
    \/ StripTribes
    \/ SplitValue
    \/ LoopBody
    \/ ReturnResult
    \/ Finish

\* ------------------------------------------- properties of the parser
FirstWord(v) == SplitFirstSpace(v)[1]

\* the first word of the k-th token of the call, as the loop sees it
TokenFirst(k) == FirstWord(CleanToken(values[k]))

IsAbbrevToken(k) == NAME_ABBREV(TokenFirst(k))

IsFullToken(k) == Len(TokenFirst(k)) > 0 /\ ~NAME_ABBREV(TokenFirst(k))

\* the full-genus tokens strictly before token k with the initial of token k
Antecedents(k) ==
    {j \in 1..(k - 1) : IsFullToken(j) /\ TokenFirst(j)[1] = TokenFirst(k)[1]}

ReturnedList == pc = "done" /\ outcome.kind = "return" /\ outcome.val # None

\* C1: in a returned list, the name of an abbreviated token starts with the
\* full genus of the LATEST earlier token that has the same initial.
C1_LatestGenusUsed ==
    ReturnedList =>
        \A k \in 1..Len(values) :
            IsAbbrevToken(k) =>
                /\ Antecedents(k) # {}
                /\ FirstWord(outcome.val[k]) = TokenFirst(Max(Antecedents(k)))

\* C2: a call whose string has an abbreviated token with no full-genus token
\* of the same initial strictly before it ends in the parse error
\* (ValueError) and returns no list.
C2_UnresolvedIsParseError ==
    (pc = "done" /\ \E k \in 1..Len(values) : IsAbbrevToken(k) /\ Antecedents(k) = {})
        => outcome.kind = "ValueError"

\* C3: a returned list has one name per token of the split string (one more
\* than the string has separators), the k-th name made from the k-th token: a
\* full token as written (trimmed, "except" and "sp." clauses removed), an
\* abbreviated token with its genus word replaced and the rest kept.
C3_OneNamePerTokenInOrder ==
    ReturnedList =>
        /\ Len(outcome.val) = Len(values)
        /\ Len(outcome.val) = 1 + Cardinality({n \in 1..Len(value) : value[n] \in {",", "&"}})
        /\ \A k \in 1..Len(values) :
              /\ IsFullToken(k) => outcome.val[k] = CleanToken(values[k])
              /\ IsAbbrevToken(k) =>
                    /\ Tail(SplitFirstSpace(outcome.val[k])) = Tail(SplitFirstSpace(CleanToken(values[k])))
                    /\ FirstWord(outcome.val[k])[1] = TokenFirst(k)[1]
                    /\ ~NAME_ABBREV(FirstWord(outcome.val[k]))

\* a three-token string with a repeated name and an abbreviation was expanded
C3_Witness ==
    /\ ReturnedList
    /\ Len(outcome.val) = 3
    /\ outcome.val[1] = outcome.val[2]
    /\ IsAbbrevToken(3)

C9_MessageHasSourceString ==
    (pc = "done" /\ outcome.kind = "ValueError") =>
        Contains(outcome.msg, <<" ","i","n"," ">> \o Strip(scientificName))

\* C10: a call on a string that is not empty after trimming ends with a list
\* or with the parse error (ValueError), nothing else.
C10_ListOrParseError ==
    (pc = "done" /\ scientificName # None /\ Len(Strip(scientificName)) > 0) =>
        \/ outcome.kind = "return" /\ outcome.val # None
        \/ outcome.kind = "ValueError"

\* ------------------------------------------------------ is_current_taxon
VARIABLES cur_pc, cur_rec, cur_out

curVars == <<cur_pc, cur_rec, cur_out>>

MaxCodeLen == 2

\* str(x)
PyStr(x) == IF x = None THEN <<"N","o","n","e">> ELSE x

\* the truth value of a flag column: None and False are false
Truthy(flag) == flag = "True"

\* the prefix "8" is not tested
is_current_taxon_no8(rec) ==
    LET spcode == PyStr(rec.SPCODE)
    IN  /\ ~Truthy(rec.NON_CURRENT_FLAG)
        /\ ~StartsWith(spcode, <<"9","9">>)
        /\ (rec.SCIENTIFIC_NAME # None \/ rec.DISPLAY_NAME # None)

is_current_taxon(rec) ==
    LET spcode == PyStr(rec.SPCODE)
    IN  /\ ~Truthy(rec.NON_CURRENT_FLAG)
        /\ ~StartsWith(spcode, <<"9","9">>)
        /\ ~StartsWith(spcode, <<"8">>)
        /\ (rec.SCIENTIFIC_NAME # None \/ rec.DISPLAY_NAME # None)

RECURSIVE Codes(_)
Codes(n) == IF n = 0 THEN {<<>>} ELSE {c \o <<d>> : c \in Codes(n - 1), d \in {"1", "8", "9"}}

TaxonRecords ==
    [NON_CURRENT_FLAG : {"None", "False", "True"},
     SPCODE : {None} \cup UNION {Codes(n) : n \in 0..MaxCodeLen},
     SCIENTIFIC_NAME : {None, <<"T","a">>},
     DISPLAY_NAME : {None, <<"T","a">>}]

NoRecord ==
    [NON_CURRENT_FLAG |-> "None", SPCODE |-> None, SCIENTIFIC_NAME |-> None, DISPLAY_NAME |-> None]

CurInit ==
    /\ cur_pc = "idle"
    /\ cur_rec = NoRecord
    /\ cur_out = FALSE

\* the filter node asks the predicate about a row
IsCurrentTaxon(rec) ==
    /\ cur_pc = "idle"
    /\ cur_rec' = rec
    /\ cur_out' = is_current_taxon(rec)
    /\ cur_pc' = "done"

\* the filter node goes on to the next row
NextRow ==
    /\ cur_pc = "done"
    /\ cur_pc' = "idle"
    /\ cur_rec' = NoRecord
    /\ cur_out' = FALSE

CurNext ==
    \/ cur_pc = "idle" /\ \E rec \in TaxonRecords : IsCurrentTaxon(rec)
    \/ NextRow

\* C7: the predicate is true exactly when the non-current flag is false or
\* unset, the text of the species code starts with neither "99" nor "8", and
\* the scientific name or the display name is present.
C7_CurrentIff ==
    cur_pc = "done" =>
        LET code == PyStr(cur_rec.SPCODE)
        IN  cur_out <=>
              /\ cur_rec.NON_CURRENT_FLAG \in {"False", "None"}
              /\ ~(Len(code) >= 2 /\ code[1] = "9" /\ code[2] = "9")
              /\ ~(Len(code) >= 1 /\ code[1] = "8")
              /\ ~(cur_rec.SCIENTIFIC_NAME = None /\ cur_rec.DISPLAY_NAME = None)

\* a row with a "99" code, not flagged and with both names, was rejected
C7_Witness ==
    /\ cur_pc = "done"
    /\ cur_rec.NON_CURRENT_FLAG = "False"
    /\ cur_rec.SPCODE = <<"9","9">>
    /\ cur_rec.SCIENTIFIC_NAME # None
    /\ cur_rec.DISPLAY_NAME # None
    /\ cur_out = FALSE

\* ----------------------------------------------------- caab_name_remarks
VARIABLES rm_pc, rm_rec, remarks

rmVars == <<rm_pc, rm_rec, remarks>>

StandardFrom == <<"S","t","a","n","d","a","r","d"," ","n","a","m","e"," ","f","r","o","m"," ">>

DerivedFrom == <<" ","D","e","r","i","v","e","d"," ","f","r","o","m"," ","o","r","i","g","i","n","a","l"," ",
                 "s","c","i","e","n","t","i","f","i","c"," ","n","a","m","e"," ","g","r","o","u","p"," ">>

Introduced == <<" ","I","n","t","r","o","d","u","c","e","d",".">>

\* a period is appended whatever the remark ends with
AlwaysPeriod(r) == r \o <<".">>

\* if not remarks.endswith("."): remarks = remarks + "."
EnsurePeriod(r) == IF EndsWith(r, <<".">>) THEN r ELSE r \o <<".">>

RemarkRecords ==
    [standard : { <<"C","A","A","B">>, <<"s","t","d",".">> },
     scientificName : { <<"T","a"," ","x">>, <<"T","a"," ","y">> },
     originalScientificName : { <<"T","a"," ","x">>,
                                <<"T","a"," ","x",","," ","T","."," ","y">>,
                                <<"T","a"," ","s","p","p",".">>,
                                <<>> },
     introduced : { None, <<"I">>, <<"N">> }]

NoRemarkRecord ==
    [standard |-> <<>>, scientificName |-> <<>>, originalScientificName |-> <<>>, introduced |-> None]

RmInit ==
    /\ rm_pc = "idle"
    /\ rm_rec = NoRemarkRecord
    /\ remarks = <<>>

\* remarks = "Standard name from " + r.standard + "."
RemarksStandard(rec) ==
    /\ rm_pc = "idle"
    /\ rm_rec' = rec
    /\ remarks' = StandardFrom \o rec.standard \o <<".">>
    /\ rm_pc' = "derived"

RemarksDerived ==
    /\ rm_pc = "derived"
    /\ remarks' = IF rm_rec.scientificName # rm_rec.originalScientificName
                  THEN EnsurePeriod(remarks \o DerivedFrom \o rm_rec.originalScientificName)
                  ELSE remarks
    /\ rm_pc' = "introduced"
    /\ UNCHANGED rm_rec

RemarksIntroduced ==
    /\ rm_pc = "introduced"
    /\ remarks' = IF rm_rec.introduced = <<"I">> THEN remarks \o Introduced ELSE remarks
    /\ rm_pc' = "done"
    /\ UNCHANGED rm_rec

\* return remarks; the map node takes the value and goes on
RemarksReturn ==
    /\ rm_pc = "done"
    /\ rm_pc' = "idle"
    /\ rm_rec' = NoRemarkRecord
    /\ remarks' = <<>>

RmNext ==
    \/ rm_pc = "idle" /\ \E rec \in RemarkRecords : RemarksStandard(rec)
    \/ RemarksDerived
    \/ RemarksIntroduced
    \/ RemarksReturn

\* C8: the remark is "Standard name from <standard>.", then, exactly when
\* the name differs from the original name group, " Derived from original
\* scientific name group <original>" plus a period unless that text ends in
\* one, then, exactly when introduced is 'I', " Introduced."; nothing else.
C8_RemarkIsExact ==
    rm_pc = "done" =>
        LET orig    == rm_rec.originalScientificName
            head    == StandardFrom \o rm_rec.standard \o <<".">>
            derived == IF rm_rec.scientificName = orig THEN <<>>
                       ELSE IF Len(orig) > 0 /\ orig[Len(orig)] = "."
                            THEN DerivedFrom \o orig
                            ELSE DerivedFrom \o orig \o <<".">>
            intro   == IF rm_rec.introduced = <<"I">> THEN Introduced ELSE <<>>
        IN  remarks = head \o derived \o intro

\* a remark was built for an introduced species whose name differs from an
\* original name group that ends in a period
C8_Witness ==
    /\ rm_pc = "done"
    /\ rm_rec.scientificName # rm_rec.originalScientificName
    /\ EndsWith(rm_rec.originalScientificName, <<".">>)
    /\ rm_rec.introduced = <<"I">>
    /\ EndsWith(remarks, <<"s","p","p","."," ","I","n","t","r","o","d","u","c","e","d",".">>)

\* ------------------------------------------------------ field normalizers
VARIABLES c_pc, c_fn, c_in, c_out

cVars == <<c_pc, c_fn, c_in, c_out>>

MaxPieces == 3

\* '|'.join(common) on a list that holds None
TypeError == <<"TypeError">>

RECURSIVE RemoveTags(_)
RemoveTags(s) ==
    LET lt == FirstIn(s, 1, {"<"})
        gt == FirstIn(s, lt + 1, {">"})
    IN  IF lt > Len(s) \/ gt > Len(s) THEN s
        ELSE SubSeq(s, 1, lt - 1) \o RemoveTags(Tail_(s, gt + 1))

\* processing.transform.strip_markup: the text without its <...> tags,
\* trimmed; None when nothing remains
strip_markup(s) ==
    IF s = None THEN None
    ELSE LET t == Strip(RemoveTags(s))
         IN  IF Len(t) = 0 THEN None ELSE t

RECURSIVE CollapseSpaces(_)
CollapseSpaces(s) ==
    IF Len(s) < 2 THEN s
    ELSE IF IsSpace(s[1]) /\ IsSpace(s[2]) THEN CollapseSpaces(Tail(s))
    ELSE <<s[1]>> \o CollapseSpaces(Tail(s))

\* processing.transform.normalise_spaces: whitespace runs become one space,
\* the text is trimmed; None when nothing remains
normalise_spaces(s) ==
    IF s = None THEN None
    ELSE LET t == Strip(CollapseSpaces(s))
         IN  IF Len(t) = 0 THEN None ELSE t

\* str.replace(old, new) for one-character strings
Replace(s, old, new) == [k \in 1..Len(s) |-> IF s[k] = old THEN new ELSE s[k]]

\* str.lower()
Lower(s) ==
    [k \in 1..Len(s) |->
        IF IsUpper(s[k]) THEN LowerCase[CHOOSE n \in 1..26 : UpperCase[n] = s[k]] ELSE s[k]]

clean_scientific(s) ==
    LET s1 == strip_markup(s)
    IN  IF s1 = None THEN None
        ELSE normalise_spaces(IF StartsWith(s1, <<"\"">>) THEN Replace(s1, "\"", " ") ELSE s1)

clean_scientific_assigned(s) ==
    LET s1 == clean_scientific(s)
    IN  IF s1 = None \/ Contains(s1, <<"u","n","a","s","s","i","g","n","e","d">>) THEN None ELSE s1

\* the body of the loop of clean_common for one phrase: None when the
\* phrase is skipped (continue), <<x>> when x is appended to common
CommonPhrase(ss) ==
    LET s1 == strip_markup(ss)
        s2 == IF StartsWith(s1, <<"[">>) /\ EndsWith(s1, <<"]">>)
              THEN Strip(SubSeq(s1, 2, Len(s1) - 1)) ELSE s1
        s3 == IF StartsWith(s2, <<"a"," ">>) THEN Tail_(s2, 3) ELSE s2
        s4 == IF StartsWith(s3, <<"a","n"," ">>) THEN Tail_(s3, 4) ELSE s3
    IN  IF s1 = None THEN None ELSE <<normalise_spaces(s4)>>

RECURSIVE CommonList(_)
CommonList(phrases) ==
    IF Len(phrases) = 0 THEN <<>>
    ELSE LET p == CommonPhrase(phrases[1])
         IN  (IF p = None THEN <<>> ELSE p) \o CommonList(Tail(phrases))

clean_common(s) ==
    IF s = None \/ Len(s) = 0 THEN None
    ELSE LET common == CommonList(SplitOn(s, {"|"}))
         IN  IF \E k \in 1..Len(common) : common[k] = None THEN TypeError
             ELSE Join(common, <<"|">>)

clean_rank(s) ==
    IF s = None THEN None
    ELSE LET t == Lower(Strip(s))
         IN  IF Len(t) = 0 THEN None ELSE t

Apply(fn, s) ==
    CASE fn = "clean_scientific" -> clean_scientific(s)
      [] fn = "clean_scientific_assigned" -> clean_scientific_assigned(s)
      [] fn = "clean_common" -> clean_common(s)
      [] fn = "clean_rank" -> clean_rank(s)

\* the column values: up to MaxPieces pieces of text
Pieces ==
    { <<"a"," ">>, <<"a","n"," ">>, <<"b">>, <<"B">>, <<"[">>, <<"]">>, <<"|">>, <<" ">>,
      <<"<","i",">">>, <<"\"">>, <<"u","n","a","s","s","i","g","n","e","d">> }

RECURSIVE Texts(_)
Texts(n) == IF n = 0 THEN {<<>>} ELSE {t \o p : t \in Texts(n - 1), p \in Pieces}

ColumnValues == {None} \cup UNION {Texts(n) : n \in 0..MaxPieces}

CInit ==
    /\ c_pc = "idle"
    /\ c_fn = "none"
    /\ c_in = None
    /\ c_out = None

CleanScientific(s) ==
    /\ c_pc = "idle"
    /\ c_fn' = "clean_scientific"
    /\ c_in' = s
    /\ c_out' = clean_scientific(s)
    /\ c_pc' = "cleaned"

CleanScientificAssigned(s) ==
    /\ c_pc = "idle"
    /\ c_fn' = "clean_scientific_assigned"
    /\ c_in' = s
    /\ c_out' = clean_scientific_assigned(s)
    /\ c_pc' = "cleaned"

CleanCommon(s) ==
    /\ c_pc = "idle"
    /\ c_fn' = "clean_common"
    /\ c_in' = s
    /\ c_out' = clean_common(s)
    /\ c_pc' = "cleaned"

CleanRank(s) ==
    /\ c_pc = "idle"
    /\ c_fn' = "clean_rank"
    /\ c_in' = s
    /\ c_out' = clean_rank(s)
    /\ c_pc' = "cleaned"

\* the cleaned value is cleaned again by the same normalizer
CleanAgain ==
    /\ c_pc = "cleaned"
    /\ c_out # TypeError
    /\ c_in' = c_out
    /\ c_out' = Apply(c_fn, c_out)
    /\ c_pc' = "recleaned"
    /\ UNCHANGED c_fn

CleanDone ==
    /\ c_pc \in {"cleaned", "recleaned"}
    /\ c_pc' = "idle"
    /\ c_fn' = "none"
    /\ c_in' = None
    /\ c_out' = None

CNext ==
    \/ c_pc = "idle" /\ \E s \in ColumnValues : CleanScientific(s)
    \/ c_pc = "idle" /\ \E s \in ColumnValues : CleanScientificAssigned(s)
    \/ c_pc = "idle" /\ \E s \in ColumnValues : CleanCommon(s)
    \/ c_pc = "idle" /\ \E s \in ColumnValues : CleanRank(s)
    \/ CleanAgain
    \/ CleanDone

\* C5: a value cleaned a second time by the same normalizer does not change.
C5_Idempotent ==
    c_pc = "recleaned" => c_out = c_in

\* C6: a normalizer that returns gives None or a non-empty string.
C6_AbsentOrNonEmpty ==
    (c_pc = "cleaned" /\ c_out # TypeError) => (c_out = None \/ Len(c_out) > 0)

vars == <<expVars, curVars, rmVars, cVars>>

Init == ExpInit /\ CurInit /\ RmInit /\ CInit

Next == ExpNext /\ UNCHANGED <<curVars, rmVars, cVars>>

Spec == Init /\ [][Next]_vars

CurrentNext == CurNext /\ UNCHANGED <<expVars, rmVars, cVars>>

SpecCurrent == Init /\ [][CurrentNext]_vars

RemarksNext == RmNext /\ UNCHANGED <<expVars, curVars, cVars>>

SpecRemarks == Init /\ [][RemarksNext]_vars

CleanNext == CNext /\ UNCHANGED <<expVars, curVars, rmVars>>

SpecClean == Init /\ [][CleanNext]_vars

====
